---- MODULE Spec2Model ----
(***************************************************************************)
(* The resource-manager side of a transaction (tx_context) of tddb: the    *)
(* oneshot operation driver, the one-phase and two-phase commit state      *)
(* machine, the timeout and the victim abort.  One tx_context is modelled  *)
(* together with the collaborators it talks to: the lock manager, the DSB, *)
(* the write-ahead log, the coordinator (TM) and the client connection.    *)
(*                                                                         *)
(* Every handler of tx_context is an operator from a record of all fields  *)
(* (the "world" w) to the record after the handler has returned; nested    *)
(* calls are nested applications, in the order of the source.  An action   *)
(* applies one handler to the current fields.                              *)
(***************************************************************************)
EXTENDS Integers, Sequences, FiniteSets, TLC

\* ---------------------------------------------------------------- bounds
MaxOps == 2
\* how many times the environment interferes in one run: timeouts, victim
\* aborts and coordinator messages together
MaxEvents == 2

\* how many calls of register_dependency and report_dependency one thread
\* makes
MaxCalls == 3

\* Every operation of the model is on one row: whether the access manager
\* holds the row, and what the DSB answers for it, is what the handlers read.
Keys == {"k1"}

\* an empty tuple_pb (is_tuple_nil) and the tuple stored under key k
TupleNil == <<>>
TupleOf(k) == <<k>>

\* lock_acquire_ == nullptr
NoFn == [kind |-> "nullptr", key |-> "", oid |-> 0]

\* a log record whose log_type has not been set
NoType == "NONE"

\* ------------------------------------------------------- program's enums
RmStates == {"RM_IDLE", "RM_COMMITTING", "RM_ABORTING",
             "RM_PREPARE_COMMITTING", "RM_PREPARE_ABORTING", "RM_ENDED"}

OpTypes == {"TX_OP_READ", "TX_OP_READ_FOR_WRITE", "TX_OP_UPDATE",
            "TX_OP_INSERT", "TX_OP_REMOVE"}

\* the answers of the DSB to a read: found, not found, any other failure
DsbAnswers == {"EC_OK", "EC_NOT_FOUND_ERROR", "EC_DSB_ERROR"}

\* the answers of the lock manager to a lock request
LockAnswers == {"EC_OK", "EC_VICTIM"}

\* the transactions between which dependencies are registered, by xid, and
\* the threads of the pool that run the calls and the posted tasks
Xids == {1, 2}
Threads == {"t1", "t2"}

\* no thread: the owner of a free mutex
NoThread == "none"

\* The declaration of tx_context::mutex_ is not in the source file: a
\* std::recursive_mutex lets its owner lock again, locking a std::mutex again
\* is undefined behaviour.
MutexTypes == {"std::mutex", "std::recursive_mutex"}

VARIABLES
  \* tx_context fields
  state_, error_code_, oid_, max_ops_, ops_, locks_, lock_acquire_,
  ds_read_handler_, has_respond_, log_entry_, victim_, response_,
  read_only_, distributed_, prepare_commit_log_synced_, commit_log_synced_,
  num_lock_,
  \* configuration: is_shared_nothing()
  share_nothing,
  \* collaborators
  access,        \* access manager: the keys it holds (the tuple of key k is k)
  lm_pending,    \* lock manager: oids requested and not yet answered
  lm_held,       \* lock manager: oids granted and not yet unlocked
  strand,        \* tasks posted to the strand by the context, in order
  dsb_inflight,  \* C2D_READ_DATA_REQ sent and not yet answered: [oid, key]
  wal_pending,   \* log types appended and not yet durable, in append order
  net,           \* messages sent, in order
  tm_decision,   \* the coordinator's decision: "none", "commit", "abort"
  \* history
  phase,         \* "new" before process_tx_request, "run" after
  request,       \* the tx_request processed
  lm_requested,  \* oids passed to lock_row
  lm_unlocked,   \* oids passed to unlock
  wal,           \* append groups handed to the WAL, in order
  wal_delivered, \* log types of the durability callbacks delivered, in order
  asserts,       \* the BOOST_ASSERTs that failed
  edges,         \* every assignment to state_: [from, to, by]
  op_started,    \* the operations started with their oids, in order
  op_results,    \* error codes passed to op_done, in order
  last,          \* what the last step did: the event, its error code and
                 \* tuple, and its pre-state
  n_events,      \* timeouts, victim aborts and coordinator messages so far
  \* dependency tracking (DB_TYPE_GEO_REP_OPTIMIZE)
  contexts,      \* the tx_context objects by xid: state_, dep_in_count_,
                 \* dep_in_set_, dep_out_set_, mutex_ (owner and depth)
  threads,       \* each thread's position in the call it is running
  posted,        \* tasks posted to the strands of the contexts, in order
  mutex_type     \* the type of tx_context::mutex_ in this build

txvars == <<state_, error_code_, oid_, max_ops_, ops_, locks_, lock_acquire_,
          ds_read_handler_, has_respond_, log_entry_, victim_, response_,
          read_only_, distributed_, prepare_commit_log_synced_,
          commit_log_synced_, num_lock_, share_nothing, access, lm_pending,
          lm_held, strand, dsb_inflight, wal_pending, net, tm_decision,
          phase, request, lm_requested, lm_unlocked, wal, wal_delivered,
          asserts, edges, op_started, op_results, last,
          n_events>>

depvars == <<contexts, threads, posted, mutex_type>>

vars == <<txvars, depvars>>

\* The current fields as one record; ev names the event being handled.
Cur(ev) ==
  [state_ |-> state_, error_code_ |-> error_code_, oid_ |-> oid_,
   max_ops_ |-> max_ops_, ops_ |-> ops_, locks_ |-> locks_,
   lock_acquire_ |-> lock_acquire_, ds_read_handler_ |-> ds_read_handler_,
   has_respond_ |-> has_respond_, log_entry_ |-> log_entry_,
   victim_ |-> victim_, response_ |-> response_, read_only_ |-> read_only_,
   distributed_ |-> distributed_,
   prepare_commit_log_synced_ |-> prepare_commit_log_synced_,
   commit_log_synced_ |-> commit_log_synced_, num_lock_ |-> num_lock_,
   share_nothing |-> share_nothing, access |-> access,
   lm_pending |-> lm_pending, lm_held |-> lm_held, strand |-> strand,
   dsb_inflight |-> dsb_inflight, wal_pending |-> wal_pending, net |-> net,
   tm_decision |-> tm_decision, phase |-> phase, request |-> request,
   lm_requested |-> lm_requested, lm_unlocked |-> lm_unlocked, wal |-> wal,
   wal_delivered |-> wal_delivered, asserts |-> asserts, edges |-> edges,
   op_started |-> op_started, op_results |-> op_results,
   last |-> [ev |-> ev, state |-> state_, wal |-> Len(wal), net |-> Len(net),
             asserts |-> asserts, ec |-> "", tuple |-> TupleNil],
   n_events |-> n_events,
   ev |-> ev]

\* The fields after a handler returned w.
Apply(w) ==
  /\ state_' = w.state_
  /\ error_code_' = w.error_code_
  /\ oid_' = w.oid_
  /\ max_ops_' = w.max_ops_
  /\ ops_' = w.ops_
  /\ locks_' = w.locks_
  /\ lock_acquire_' = w.lock_acquire_
  /\ ds_read_handler_' = w.ds_read_handler_
  /\ has_respond_' = w.has_respond_
  /\ log_entry_' = w.log_entry_
  /\ victim_' = w.victim_
  /\ response_' = w.response_
  /\ read_only_' = w.read_only_
  /\ distributed_' = w.distributed_
  /\ prepare_commit_log_synced_' = w.prepare_commit_log_synced_
  /\ commit_log_synced_' = w.commit_log_synced_
  /\ num_lock_' = w.num_lock_
  /\ share_nothing' = w.share_nothing
  /\ access' = w.access
  /\ lm_pending' = w.lm_pending
  /\ lm_held' = w.lm_held
  /\ strand' = w.strand
  /\ dsb_inflight' = w.dsb_inflight
  /\ wal_pending' = w.wal_pending
  /\ net' = w.net
  /\ tm_decision' = w.tm_decision
  /\ phase' = w.phase
  /\ request' = w.request
  /\ lm_requested' = w.lm_requested
  /\ lm_unlocked' = w.lm_unlocked
  /\ wal' = w.wal
  /\ wal_delivered' = w.wal_delivered
  /\ asserts' = w.asserts
  /\ edges' = w.edges
  /\ op_started' = w.op_started
  /\ op_results' = w.op_results
  /\ last' = w.last
  /\ n_events' = w.n_events
  /\ UNCHANGED depvars

\* ------------------------------------------------------------- helpers

\* BOOST_ASSERT(false) at the named place: recorded, execution goes on as in
\* a build without assertions.
AssertFail(w, where) == [w EXCEPT !.asserts = @ \cup {where}]

\* an assignment to state_
SetState(w, to) ==
  [w EXCEPT !.state_ = to,
            !.edges = @ \cup {[from |-> w.state_, to |-> to, by |-> w.ev]}]

\* service_->conn_async_send / async_send
Send(w, msg) == [w EXCEPT !.net = Append(@, msg)]

\* ------------------------------------------------ response, WAL, release

\* the message is built from a fresh tx_response: the error code and the
\* counters are set, response_ (the accumulator) is not copied into it
send_tx_response(w) ==
  IF w.has_respond_ THEN w
  ELSE Send([w EXCEPT !.has_respond_ = TRUE],
            [type |-> "CLIENT_TX_RESP", ec |-> w.error_code_, ops |-> <<>>])

send_prepare_message(w, commit) ==
  Send(w, [type |-> "TX_RM_PREPARE", commit |-> commit])

send_ack_message(w, commit) ==
  Send(w, [type |-> "TX_RM_ACK", commit |-> commit])

\* log_entry_ holds at most one record: a record is added only when it is empty
set_tx_cmd_type(w, type) ==
  LET le == IF w.log_entry_ = <<>>
            THEN <<[log_type |-> NoType, ops |-> <<>>]>> ELSE w.log_entry_
  IN [w EXCEPT !.log_entry_ = [le EXCEPT ![Len(le)].log_type = type]]

append_operation(w, op) ==
  LET le == IF w.log_entry_ = <<>>
            THEN <<[log_type |-> NoType, ops |-> <<>>]>> ELSE w.log_entry_
  IN [w EXCEPT !.log_entry_ = [le EXCEPT ![Len(le)].ops = Append(@, op)]]

\* wal_->async_append(entries): the group is handed to the WAL, which will
\* deliver one durability callback for it
async_force_log(w) ==
  [w EXCEPT !.wal = Append(@, w.log_entry_),
            !.wal_pending = @ \o [i \in 1..Len(w.log_entry_) |->
                                    w.log_entry_[i].log_type],
            !.log_entry_ = <<>>]

tx_ended(w) == SetState(w, "RM_ENDED")

\* mgr_->unlock for every lock of locks_, unless the transaction is flagged
\* read_only
release_lock(w) ==
  LET oids == {l.oid : l \in w.locks_}
      u == IF ~w.read_only_
           THEN [w EXCEPT !.lm_unlocked = @ \cup oids,
                          !.lm_held = @ \ oids,
                          !.lm_pending = @ \ oids]
           ELSE w
  IN [tx_ended(u) EXCEPT !.locks_ = {}]

tx_committed(w) ==
  IF ~w.distributed_
  THEN release_lock(send_tx_response(w))
  ELSE IF w.share_nothing
       THEN release_lock(send_ack_message(w, TRUE))
       ELSE w

tx_aborted(w) ==
  IF ~w.distributed_
  THEN LET e == IF w.error_code_ = "EC_OK"
                THEN [w EXCEPT !.error_code_ = "EC_TX_ABORT"] ELSE w
       IN release_lock(send_tx_response(e))
  ELSE IF w.share_nothing
       THEN release_lock(send_ack_message(w, FALSE))
       ELSE w

on_committed_log_commit(w) ==
  tx_committed([w EXCEPT !.commit_log_synced_ = TRUE])

on_aborted_log_commit(w) == tx_aborted(w)

tx_prepare_committed(w) == send_prepare_message(w, TRUE)

tx_prepare_aborted(w) == send_prepare_message(w, FALSE)

on_prepare_committed_log_commit(w) ==
  tx_prepare_committed([w EXCEPT !.prepare_commit_log_synced_ = TRUE])

on_prepare_aborted_log_commit(w) == tx_prepare_aborted(w)

on_log_entry_commit(w, type) ==
  LET c == [w EXCEPT !.log_entry_ = <<>>]
  IN CASE type = "RM_COMMIT" -> on_committed_log_commit(c)
       [] type = "RM_ABORT" -> on_aborted_log_commit(c)
       [] type = "RM_PREPARE_ABORT" -> on_prepare_aborted_log_commit(c)
       [] type = "RM_PREPARE_COMMIT" -> on_prepare_committed_log_commit(c)
       [] OTHER -> c

\* ------------------------------------------------------ commit and abort

\* a variant without the test of state_
abort_tx_1p_unguarded(w) ==
  async_force_log(set_tx_cmd_type(SetState(w, "RM_ABORTING"), "RM_ABORT"))

abort_tx_1p(w) ==
  IF w.state_ = "RM_IDLE"
  THEN async_force_log(set_tx_cmd_type(SetState(w, "RM_ABORTING"), "RM_ABORT"))
  ELSE IF w.state_ = "RM_ABORTING"
       THEN send_tx_response(w)
       ELSE AssertFail(w, "abort_tx_1p")

\* a variant that answers without waiting for the log, read-only or not
handle_finish_tx_phase1_commit_unforced(w) ==
  IF w.state_ \in {"RM_IDLE", "RM_PREPARE_COMMITTING"}
  THEN on_committed_log_commit(
         set_tx_cmd_type(SetState(w, "RM_COMMITTING"), "RM_COMMIT"))
  ELSE IF w.state_ = "RM_COMMITTING"
       THEN send_tx_response(w)
       ELSE AssertFail(w, "handle_finish_tx_phase1_commit")

handle_finish_tx_phase1_commit(w) ==
  IF w.state_ \in {"RM_IDLE", "RM_PREPARE_COMMITTING"}
  THEN LET c == set_tx_cmd_type(SetState(w, "RM_COMMITTING"), "RM_COMMIT")
       IN IF c.read_only_ THEN on_committed_log_commit(c)
          ELSE async_force_log(c)
  ELSE IF w.state_ = "RM_COMMITTING"
       THEN send_tx_response(w)
       ELSE AssertFail(w, "handle_finish_tx_phase1_commit")

handle_finish_tx_phase1_abort(w) == abort_tx_1p(w)

abort(w, ec) ==
  LET v == IF ec = "EC_VICTIM" /\ ~w.victim_ /\ ~w.distributed_
           THEN [w EXCEPT !.victim_ = TRUE] ELSE w
  IN IF ~v.distributed_
     THEN IF v.state_ = "RM_IDLE"
          THEN abort_tx_1p([v EXCEPT !.error_code_ = ec])
          ELSE v
     ELSE Send(v, [type |-> "TX_VICTIM"])

abort_tx_2p(w) ==
  IF w.state_ \in {"RM_IDLE", "RM_PREPARE_ABORTING", "RM_PREPARE_COMMITTING"}
  THEN async_force_log(set_tx_cmd_type(SetState(w, "RM_ABORTING"), "RM_ABORT"))
  ELSE IF w.state_ \in {"RM_ABORTING", "RM_ENDED"}
       THEN send_ack_message(w, FALSE)
       ELSE AssertFail(w, "abort_tx_2p")

prepare_commit_tx(w) ==
  IF w.state_ = "RM_IDLE"
  THEN set_tx_cmd_type(SetState(w, "RM_PREPARE_COMMITTING"),
                       "RM_PREPARE_COMMIT")
  ELSE w

prepare_abort_tx(w) ==
  set_tx_cmd_type(SetState(w, "RM_PREPARE_ABORTING"), "RM_PREPARE_ABORT")

\* a variant that votes when the record is appended, not when it is durable
handle_finish_tx_phase1_prepare_commit_early_vote(w) ==
  tx_prepare_committed(async_force_log(prepare_commit_tx(w)))

handle_finish_tx_phase1_prepare_commit(w) ==
  async_force_log(prepare_commit_tx(w))

handle_finish_tx_phase1_prepare_abort(w) ==
  async_force_log(prepare_abort_tx(w))

handle_finish_tx_phase2_commit(w) ==
  IF w.state_ = "RM_PREPARE_COMMITTING"
  THEN async_force_log(set_tx_cmd_type(SetState(w, "RM_COMMITTING"),
                                       "RM_COMMIT"))
  ELSE IF w.state_ = "RM_COMMITTING"
       THEN send_ack_message(w, TRUE)
       ELSE AssertFail(w, "handle_finish_tx_phase2_commit")

handle_finish_tx_phase2_abort(w) == abort_tx_2p(w)

\* The early return on ms + 1000 < start_ is never taken: both are readings
\* of the steady clock and start_ is the earlier one.
timeout_clean_up(w) ==
  IF w.state_ \in {"RM_PREPARE_COMMITTING", "RM_COMMITTING"}
  THEN w
  ELSE IF ~w.distributed_
       THEN send_tx_response(abort_tx_1p(w))
       ELSE IF w.share_nothing THEN abort_tx_2p(w) ELSE w

\* --------------------------------------------------- the operation driver

\* boost::asio::post(get_strand(), op_done(ec))
invoke_done(w, ec) ==
  [w EXCEPT !.strand = Append(@, [kind |-> "op_done", ec |-> ec])]

\* read_done of handle_operation: the tuple goes to the accumulator response_
read_done(w, ec, tuple) ==
  LET a == IF ec = "EC_OK" /\ tuple = TupleNil
           THEN AssertFail(w, "read_done") ELSE w
  IN invoke_done([a EXCEPT !.response_ = Append(@, tuple)], ec)

\* a variant that does not stage the operation for the log
write_done_unlogged(w, op, ec) == invoke_done(w, ec)

\* update_done and insert_done of handle_operation
write_done(w, op, ec) == invoke_done(append_operation(w, op), ec)

\* C2D_READ_DATA_REQ to the DSB; the continuation is kept under the oid
read_data_from_dsb(w, key, oid, fn) ==
  [w EXCEPT !.ds_read_handler_ =
               {h \in @ : h.oid # oid} \cup {[oid |-> oid, fn |-> fn]},
            !.dsb_inflight = @ \cup {[oid |-> oid, key |-> key]}]

\* a variant whose insert continuation hands the DSB's error code through
DsbHandler_passthrough(w, fn, ec, tuple) ==
  CASE fn.kind \in {"TX_OP_READ", "TX_OP_READ_FOR_WRITE"} ->
         LET a == IF ec = "EC_OK" /\ tuple = TupleNil
                  THEN AssertFail(w, "fn_read_from_dsb") ELSE w
         IN read_done(a, ec, tuple)
    [] fn.kind = "TX_OP_UPDATE" ->
         write_done(w, [type |-> fn.kind, key |-> fn.key], ec)
    [] fn.kind = "TX_OP_INSERT" ->
         write_done(w, [type |-> fn.kind, key |-> fn.key], ec)

\* the continuations given to read_data_from_dsb, by operation type
DsbHandler(w, fn, ec, tuple) ==
  CASE fn.kind \in {"TX_OP_READ", "TX_OP_READ_FOR_WRITE"} ->
         LET a == IF ec = "EC_OK" /\ tuple = TupleNil
                  THEN AssertFail(w, "fn_read_from_dsb") ELSE w
         IN read_done(a, ec, tuple)
    [] fn.kind = "TX_OP_UPDATE" ->
         write_done(w, [type |-> fn.kind, key |-> fn.key], ec)
    [] fn.kind = "TX_OP_INSERT" ->
         write_done(w, [type |-> fn.kind, key |-> fn.key],
                    IF ec = "EC_OK" THEN "EC_DUPLICATION_ERROR"
                    ELSE IF ec = "EC_NOT_FOUND_ERROR" THEN "EC_OK" ELSE ec)

\* the continuation stored in lock_acquire_ by async_read, async_update and
\* async_insert, run with the lock manager's answer
LockContinuation(w, fn, ec) ==
  CASE fn.kind \in {"TX_OP_READ", "TX_OP_READ_FOR_WRITE"} ->
         IF ec = "EC_OK"
         THEN IF fn.key \in w.access
              THEN read_done(w, ec, TupleOf(fn.key))
              ELSE read_data_from_dsb(w, fn.key, fn.oid, fn)
         ELSE read_done(w, ec, TupleNil)
    [] fn.kind = "TX_OP_UPDATE" ->
         IF ec = "EC_OK"
         THEN IF fn.key \in w.access
              THEN write_done(w, [type |-> fn.kind, key |-> fn.key], "EC_OK")
              ELSE read_data_from_dsb(w, fn.key, fn.oid, fn)
         ELSE write_done(w, [type |-> fn.kind, key |-> fn.key], ec)
    [] fn.kind = "TX_OP_INSERT" ->
         IF ec = "EC_OK"
         THEN IF fn.key \in w.access
              THEN write_done(w, [type |-> fn.kind, key |-> fn.key],
                              "EC_DUPLICATION_ERROR")
              ELSE read_data_from_dsb(w, fn.key, fn.oid, fn)
         ELSE write_done(w, [type |-> fn.kind, key |-> fn.key], ec)

\* mgr_->lock_row: the request is with the lock manager until it answers
lock_row(w, oid) ==
  [w EXCEPT !.lm_pending = @ \cup {oid}, !.lm_requested = @ \cup {oid}]

\* the common head of async_read, async_update, async_insert: take the oid,
\* put the lock item into locks_, store the continuation
BeginLock(w, op, mode) ==
  LET a == IF w.lock_acquire_ # NoFn THEN AssertFail(w, "lock_acquire_") ELSE w
      isnew == ~\E l \in w.locks_ : l.oid = w.oid_
  IN [a EXCEPT !.oid_ = @ + 1,
               !.locks_ = IF isnew
                          THEN @ \cup {[oid |-> w.oid_, mode |-> mode,
                                        key |-> op.key]}
                          ELSE @,
               !.num_lock_ = IF isnew THEN @ + 1 ELSE @,
               !.op_started = Append(@, [oid |-> w.oid_, op |-> op]),
               !.lock_acquire_ = [kind |-> op.type, key |-> op.key,
                                  oid |-> w.oid_]]

\* a variant whose read_only grant leaves the continuation stored
async_read_uncleared(w, op) ==
  LET b == BeginLock(w, op, IF op.type = "TX_OP_READ_FOR_WRITE"
                            THEN "LOCK_WRITE_ROW" ELSE "LOCK_READ_ROW")
  IN IF b.read_only_
     THEN LockContinuation(b, b.lock_acquire_, "EC_OK")
     ELSE lock_row(b, w.oid_)

async_read(w, op) ==
  LET b == BeginLock(w, op, IF op.type = "TX_OP_READ_FOR_WRITE"
                            THEN "LOCK_WRITE_ROW" ELSE "LOCK_READ_ROW")
  IN IF b.read_only_
     THEN [LockContinuation(b, b.lock_acquire_, "EC_OK")
             EXCEPT !.lock_acquire_ = NoFn]
     ELSE lock_row(b, w.oid_)

async_update(w, op) == lock_row(BeginLock(w, op, "LOCK_WRITE_ROW"), w.oid_)

async_insert(w, op) == lock_row(BeginLock(w, op, "LOCK_WRITE_ROW"), w.oid_)

handle_operation(w, op) ==
  CASE op.type \in {"TX_OP_READ", "TX_OP_READ_FOR_WRITE"} -> async_read(w, op)
    [] op.type = "TX_OP_UPDATE" -> async_update(w, op)
    [] op.type = "TX_OP_INSERT" -> async_insert(w, op)
    [] OTHER -> AssertFail(w, "handle_operation")

\* a variant that finishes every transaction in one phase
handle_next_operation_one_phase(w) ==
  IF w.state_ # "RM_IDLE" THEN w
  ELSE IF w.error_code_ = "EC_OK"
       THEN IF w.ops_ # <<>>
            THEN handle_operation(w, Head(w.ops_))
            ELSE handle_finish_tx_phase1_commit(w)
       ELSE handle_finish_tx_phase1_abort(w)

handle_next_operation(w) ==
  IF w.state_ # "RM_IDLE" THEN w
  ELSE IF w.error_code_ = "EC_OK"
       THEN IF w.ops_ # <<>>
            THEN handle_operation(w, Head(w.ops_))
            ELSE LET a == IF w.oid_ # w.max_ops_ + 1
                          THEN AssertFail(w, "oid_") ELSE w
                 IN IF a.distributed_
                    THEN IF a.share_nothing
                         THEN handle_finish_tx_phase1_prepare_commit(a)
                         ELSE a
                    ELSE handle_finish_tx_phase1_commit(a)
       ELSE IF w.distributed_
            THEN IF w.share_nothing
                 THEN handle_finish_tx_phase1_prepare_abort(w)
                 ELSE w
            ELSE handle_finish_tx_phase1_abort(w)

\* a variant that tolerates NOT_FOUND_ERROR in every transaction
op_done_tolerant(w, ec) ==
  LET p == [w EXCEPT !.ops_ = Tail(@),
                     !.op_results = Append(@, ec),
                     !.error_code_ = IF ec = "EC_NOT_FOUND_ERROR"
                                     THEN "EC_OK" ELSE ec]
  IN handle_next_operation(p)

\* a variant that tolerates no error
op_done_strict(w, ec) ==
  LET p == [w EXCEPT !.ops_ = Tail(@),
                     !.op_results = Append(@, ec),
                     !.error_code_ = ec]
  IN handle_next_operation(p)

\* the completion callback of an operation, run on the strand
op_done(w, ec) ==
  LET p == [w EXCEPT !.ops_ = Tail(@),
                     !.op_results = Append(@, ec),
                     !.error_code_ = IF w.read_only_ /\ ec = "EC_NOT_FOUND_ERROR"
                                     THEN "EC_OK" ELSE ec]
  IN handle_next_operation(p)

\* the task posted by notify_lock_acquire, run on the strand
lock_acquire_task(w, ec) ==
  IF w.lock_acquire_ # NoFn
  THEN LockContinuation([w EXCEPT !.lock_acquire_ = NoFn], w.lock_acquire_, ec)
  ELSE AssertFail(w, "notify_lock_acquire")

\* a variant that puts every tuple of a response into the access manager
read_data_from_dsb_response_put_any(w, oid, key, ec, has_tuple) ==
  LET tuple == IF has_tuple THEN TupleOf(key) ELSE TupleNil
      hs == {h \in w.ds_read_handler_ : h.oid = oid}
      a == IF hs # {}
           THEN LET h == CHOOSE x \in hs : TRUE
                IN [DsbHandler(w, h.fn, ec, tuple)
                      EXCEPT !.ds_read_handler_ = @ \ {h}]
           ELSE AssertFail(w, "read_data_from_dsb_response")
  IN IF has_tuple
     THEN [a EXCEPT !.access = @ \cup {key}]
     ELSE a

read_data_from_dsb_response(w, oid, key, ec, has_tuple) ==
  LET tuple == IF has_tuple THEN TupleOf(key) ELSE TupleNil
      hs == {h \in w.ds_read_handler_ : h.oid = oid}
      a == IF hs # {}
           THEN LET h == CHOOSE x \in hs : TRUE
                IN [DsbHandler(w, h.fn, ec, tuple)
                      EXCEPT !.ds_read_handler_ = @ \ {h}]
           ELSE AssertFail(w, "read_data_from_dsb_response")
  IN IF ec = "EC_OK" /\ has_tuple
     THEN [a EXCEPT !.access = @ \cup {key}]
     ELSE a

process_tx_request(w, req) ==
  LET b == [w EXCEPT !.read_only_ = req.read_only,
                     !.max_ops_ = Len(req.operations),
                     !.request = req,
                     !.phase = "run"]
  IN IF req.oneshot
     THEN handle_next_operation([b EXCEPT !.ops_ = req.operations])
     ELSE b

\* ------------------------------------------------------- the collaborators

\* the lock manager answers a pending request: it grants the lock or fails
\* the request of a deadlock victim, and notify_lock_acquire posts the task
lock_mgr_answer(w, oid, ec) ==
  [w EXCEPT !.lm_pending = @ \ {oid},
            !.lm_held = IF ec = "EC_OK" THEN @ \cup {oid} ELSE @,
            !.strand = Append(@, [kind |-> "lock_ntf", ec |-> ec])]

\* the WAL makes the oldest pending record durable and calls back
wal_durable(w) ==
  on_log_entry_commit(
    [w EXCEPT !.wal_pending = Tail(@),
              !.wal_delivered = Append(@, Head(w.wal_pending))],
    Head(w.wal_pending))

\* the requests a client can send
OpSeqs == UNION {[1..n -> [type : OpTypes, key : Keys]] : n \in 0..MaxOps}

Requests == [read_only : BOOLEAN, oneshot : BOOLEAN, operations : OpSeqs]

\* --------------------------------------------------------------- actions

\* the state after construction
InitTx ==
  /\ state_ = "RM_IDLE"
  /\ error_code_ = "EC_OK"
  /\ oid_ = 1
  /\ max_ops_ = 0
  /\ ops_ = <<>>
  /\ locks_ = {}
  /\ lock_acquire_ = NoFn
  /\ ds_read_handler_ = {}
  /\ has_respond_ = FALSE
  /\ log_entry_ = <<>>
  /\ victim_ = FALSE
  /\ response_ = <<>>
  /\ read_only_ = FALSE
  /\ distributed_ \in BOOLEAN
  /\ prepare_commit_log_synced_ = FALSE
  /\ commit_log_synced_ = FALSE
  /\ num_lock_ = 0
  /\ share_nothing \in BOOLEAN
  /\ access \in SUBSET Keys
  /\ lm_pending = {}
  /\ lm_held = {}
  /\ strand = <<>>
  /\ dsb_inflight = {}
  /\ wal_pending = <<>>
  /\ net = <<>>
  /\ tm_decision = "none"
  /\ phase = "new"
  /\ request = [read_only |-> FALSE, oneshot |-> FALSE, operations |-> <<>>]
  /\ lm_requested = {}
  /\ lm_unlocked = {}
  /\ wal = <<>>
  /\ wal_delivered = <<>>
  /\ asserts = {}
  /\ edges = {}
  /\ op_started = <<>>
  /\ op_results = <<>>
  /\ last = [ev |-> "init", state |-> "RM_IDLE", wal |-> 0, net |-> 0,
             asserts |-> {}, ec |-> "", tuple |-> TupleNil]
  /\ n_events = 0

\* a context as constructed: no dependency, mutex free
NewContext ==
  [state_ |-> "RM_IDLE", dep_in_count_ |-> 0, dep_in_set_ |-> {},
   dep_out_set_ |-> {}, owner |-> NoThread, depth |-> 0, reported |-> 0,
   dependency_committed_ |-> FALSE]

\* a thread that runs nothing
IdleThread ==
  [pc |-> "idle", this |-> 0, out |-> 0, calls |-> 0, returned |-> "none"]

\* dependency tracking is compiled out or never called
InitNoDep ==
  /\ contexts = [x \in Xids |-> NewContext]
  /\ threads = [t \in Threads |-> IdleThread]
  /\ posted = <<>>
  /\ mutex_type = "std::recursive_mutex"

Init == InitTx /\ InitNoDep

ProcessTxRequest ==
  /\ phase = "new"
  /\ \E req \in Requests : Apply(process_tx_request(Cur("request"), req))

LockAnswer ==
  \E oid \in lm_pending, ec \in LockAnswers :
    Apply(lock_mgr_answer(Cur("lock_answer"), oid, ec))

RunLockNotify ==
  /\ strand # <<>>
  /\ Head(strand).kind = "lock_ntf"
  /\ Apply(lock_acquire_task([Cur("lock_ntf") EXCEPT
                                !.strand = Tail(@),
                                !.last.ec = Head(strand).ec],
                             Head(strand).ec))

RunOpDone ==
  /\ strand # <<>>
  /\ Head(strand).kind = "op_done"
  /\ Apply(op_done([Cur("op_done") EXCEPT !.strand = Tail(@),
                                           !.last.ec = Head(strand).ec],
                   Head(strand).ec))

DsbResponse ==
  \E r \in dsb_inflight, ec \in DsbAnswers :
    Apply(read_data_from_dsb_response(
            [Cur("dsb_rsp") EXCEPT !.dsb_inflight = @ \ {r},
                                   !.last.ec = ec,
                                   !.last.tuple = IF ec = "EC_OK"
                                                  THEN TupleOf(r.key)
                                                  ELSE TupleNil],
            r.oid, r.key, ec, ec = "EC_OK"))

WalCallback ==
  /\ wal_pending # <<>>
  /\ Apply(wal_durable(Cur("wal_" \o Head(wal_pending))))

TimeoutCleanUp ==
  /\ phase = "run"
  /\ n_events < MaxEvents
  /\ Apply(timeout_clean_up([Cur("timeout") EXCEPT !.n_events = @ + 1]))

\* the deadlock detector picks the transaction, which has asked for a lock
AbortVictim ==
  /\ phase = "run"
  /\ lm_requested # {}
  /\ n_events < MaxEvents
  /\ Apply(abort([Cur("victim") EXCEPT !.n_events = @ + 1], "EC_VICTIM"))

\* the coordinator decides commit only with this participant's commit vote,
\* decides once, and repeats its decision until it is acknowledged
TmCommit ==
  /\ distributed_ /\ share_nothing
  /\ \E i \in 1..Len(net) : net[i] = [type |-> "TX_RM_PREPARE", commit |-> TRUE]
  /\ tm_decision # "abort"
  /\ n_events < MaxEvents
  /\ Apply(handle_finish_tx_phase2_commit(
             [Cur("tm_commit") EXCEPT !.n_events = @ + 1,
                                      !.tm_decision = "commit"]))

TmAbort ==
  /\ distributed_ /\ share_nothing
  /\ phase = "run"
  /\ tm_decision # "commit"
  /\ n_events < MaxEvents
  /\ Apply(handle_finish_tx_phase2_abort(
             [Cur("tm_abort") EXCEPT !.n_events = @ + 1,
                                     !.tm_decision = "abort"]))

Next ==
  \/ ProcessTxRequest
  \/ LockAnswer
  \/ RunLockNotify
  \/ RunOpDone
  \/ DsbResponse
  \/ WalCallback
  \/ TimeoutCleanUp
  \/ AbortVictim
  \/ TmCommit
  \/ TmAbort

Spec == Init /\ [][Next]_vars

\* ------------------------------------------------- what the claims speak of

Sent(msg) == \E i \in 1..Len(net) : net[i] = msg

ClientResponses == {i \in 1..Len(net) : net[i].type = "CLIENT_TX_RESP"}

EnteredState(st) == \E e \in edges : e.to = st

Delivered(type) == \E i \in 1..Len(wal_delivered) : wal_delivered[i] = type

AckCommit == [type |-> "TX_RM_ACK", commit |-> TRUE]

AckAbort == [type |-> "TX_RM_ACK", commit |-> FALSE]

PrepareCommit == [type |-> "TX_RM_PREPARE", commit |-> TRUE]

\* the messages sent by the last step
SentByLast == SubSeq(net, last.net + 1, Len(net))

\* ---------------------------------------------------------------- C1
\* C1 as stated: once a transaction has entered RM_COMMITTING, read-only or
\* not, a CLIENT_TX_RESP is in the sent messages only if the durability
\* callback on_log_entry_commit(RM_COMMIT) has been delivered.
C1_Original ==
  (EnteredState("RM_COMMITTING") /\ ClientResponses # {})
     => Delivered("RM_COMMIT")

\* C1, amended: for a transaction that is not flagged read_only and has
\* entered RM_COMMITTING, no CLIENT_TX_RESP is sent before the durability
\* callback for RM_COMMIT has been delivered; a read_only transaction appends
\* nothing and answers within the handler that enters RM_COMMITTING.
C1_ResponseAfterDurableCommit ==
  /\ (~read_only_ /\ EnteredState("RM_COMMITTING") /\ ClientResponses # {})
        => Delivered("RM_COMMIT")
  /\ (read_only_ /\ EnteredState("RM_COMMITTING") /\ ~distributed_)
        => (ClientResponses # {} /\ wal = <<>>)

C1_Witness ==
  /\ ~read_only_ /\ ~distributed_
  /\ EnteredState("RM_COMMITTING")
  /\ ClientResponses # {}
  /\ Delivered("RM_COMMIT")

\* ---------------------------------------------------------------- C2
\* C2: the locks held are among the locks requested through lock_row, and in
\* RM_ENDED every lock requested has been passed to unlock and none is held.
C2_LocksReleasedWhenEnded ==
  /\ lm_held \subseteq lm_requested
  /\ state_ = "RM_ENDED" => (lm_requested \subseteq lm_unlocked /\ lm_held = {})

\* ---------------------------------------------------------------- C3
\* C3: a TM_COMMIT delivered again to a participant that has sent
\* ACK(commit=true) and ended leaves the state unchanged, appends no WAL
\* record and sends ACK(commit=true) again.
C3_RedeliveredCommitAcksAgain ==
  (/\ last.ev = "tm_commit"
   /\ last.state = "RM_ENDED"
   /\ \E i \in 1..last.net : net[i] = AckCommit)
     => /\ state_ = "RM_ENDED"
        /\ Len(wal) = last.wal
        /\ SentByLast = <<AckCommit>>

\* ---------------------------------------------------------------- C4
\* C4: ACK(commit=true) is among the sent messages only if the durability
\* callback for RM_COMMIT has been delivered.
C4_AckCommitAfterDurableCommit ==
  Sent(AckCommit) => Delivered("RM_COMMIT")

\* ---------------------------------------------------------------- C5
OpsDone == Len(op_results) = Len(request.operations)

\* C5 as stated: PREPARE(commit=true) is among the sent messages only if
\* every operation has completed with OK and the durability callback for
\* RM_PREPARE_COMMIT has been delivered.
C5_Original ==
  Sent(PrepareCommit)
    => /\ OpsDone
       /\ \A i \in 1..Len(op_results) : op_results[i] = "EC_OK"
       /\ Delivered("RM_PREPARE_COMMIT")

\* C5, amended: PREPARE(commit=true) is among the sent messages only if every
\* operation has completed with OK, or with NOT_FOUND_ERROR in a transaction
\* flagged read_only, and the durability callback for RM_PREPARE_COMMIT has
\* been delivered.
C5_PrepareCommitAfterOpsAndDurable ==
  Sent(PrepareCommit)
    => /\ OpsDone
       /\ \A i \in 1..Len(op_results) :
            \/ op_results[i] = "EC_OK"
            \/ read_only_ /\ op_results[i] = "EC_NOT_FOUND_ERROR"
       /\ Delivered("RM_PREPARE_COMMIT")

C5_Witness ==
  /\ Sent(PrepareCommit)
  /\ Len(op_results) = MaxOps
  /\ \E i \in 1..Len(op_results) : op_results[i] = "EC_OK"

\* ---------------------------------------------------------------- C6
\* the edges C6 names; the decision edges are those taken on a TM message
C6_Edges ==
  {e \in [from : RmStates, to : RmStates,
          by : {"request", "op_done", "victim", "timeout", "tm_commit",
                "tm_abort", "wal_RM_COMMIT", "wal_RM_ABORT"}] :
     \/ ~distributed_ /\ e.from = "RM_IDLE"
          /\ e.to \in {"RM_COMMITTING", "RM_ABORTING"}
     \/ distributed_ /\ e.from = "RM_IDLE"
          /\ e.to \in {"RM_PREPARE_COMMITTING", "RM_PREPARE_ABORTING"}
     \/ e.from = "RM_PREPARE_COMMITTING" /\ e.to = "RM_COMMITTING"
          /\ e.by = "tm_commit"
     \/ e.from = "RM_PREPARE_ABORTING" /\ e.to = "RM_ABORTING"
          /\ e.by = "tm_abort"
     \/ e.from \in {"RM_COMMITTING", "RM_ABORTING"} /\ e.to = "RM_ENDED"}

\* C6 as stated: every assignment to state_ is one of the edges C6 names.
C6_Original == edges \subseteq C6_Edges

\* what the code adds for a distributed transaction: an abort decided before
\* or against the participant's vote, and the timeout
C6_AbortEdges ==
  {e \in [from : RmStates, to : RmStates, by : {"timeout", "tm_abort"}] :
     /\ distributed_
     /\ e.to = "RM_ABORTING"
     /\ \/ e.from \in {"RM_IDLE", "RM_PREPARE_ABORTING"}
        \/ e.from = "RM_PREPARE_COMMITTING" /\ e.by = "tm_abort"}

\* C6, amended: every assignment to state_ is one of the edges C6 names or,
\* for a distributed transaction, IDLE->ABORTING or PREPARE_ABORTING->ABORTING
\* on a TM abort decision or a timeout, or PREPARE_COMMITTING->ABORTING on a
\* TM abort decision; RM_ENDED is never left.
C6_OnlySpecifiedEdges ==
  /\ edges \subseteq (C6_Edges \cup C6_AbortEdges)
  /\ \A e \in edges : e.from = "RM_ENDED" => e.to = "RM_ENDED"

C6_Witness ==
  /\ \E e \in edges : e.from = "RM_PREPARE_COMMITTING" /\ e.to = "RM_ABORTING"
  /\ state_ = "RM_ENDED"

\* ---------------------------------------------------------------- C7
\* C7: a timeout that fires in PREPARE_COMMITTING, COMMITTING or ENDED changes
\* no state, appends nothing to the WAL, sends no message and reaches no
\* assertion; in every other state it forces an abort: from IDLE or
\* PREPARE_ABORTING the state becomes ABORTING and RM_ABORT is appended.
C7_TimeoutFrame ==
  /\ (last.ev = "timeout"
      /\ last.state \in {"RM_PREPARE_COMMITTING", "RM_COMMITTING", "RM_ENDED"})
       => /\ state_ = last.state
          /\ Len(wal) = last.wal
          /\ Len(net) = last.net
          /\ asserts = last.asserts
  /\ (last.ev = "timeout"
      /\ (distributed_ => share_nothing)
      /\ last.state \in {"RM_IDLE", "RM_PREPARE_ABORTING"})
       => /\ state_ = "RM_ABORTING"
          /\ Len(wal) = last.wal + 1
          /\ wal[Len(wal)][1].log_type = "RM_ABORT"

\* ---------------------------------------------------------------- C8
\* the transaction was aborted as a deadlock victim: abort(VICTIM) moved it
\* out of RM_IDLE, or an operation completed with VICTIM and the driver took
\* the abort path
AbortedAsVictim ==
  \/ \E e \in edges : e.to = "RM_ABORTING" /\ e.by = "victim"
  \/ /\ \E e \in edges : e.to = "RM_ABORTING" /\ e.by = "op_done"
     /\ \E i \in 1..Len(op_results) : op_results[i] = "EC_VICTIM"

\* C8: a non-distributed transaction aborted as a deadlock victim is in
\* ABORTING (or, once released, ENDED) and every CLIENT_TX_RESP it has sent
\* carries TX_ABORT.
C8_VictimRespondsTxAbort ==
  (~distributed_ /\ AbortedAsVictim)
    => /\ state_ \in {"RM_ABORTING", "RM_ENDED"}
       /\ \A i \in ClientResponses : net[i].ec = "EC_TX_ABORT"

\* ---------------------------------------------------------------- C9
\* the started operations are the first operations of the request, in order,
\* with oids 1, 2, 3, ...
StartedInOrder ==
  /\ Len(op_started) <= Len(request.operations)
  /\ \A i \in 1..Len(op_started) :
       op_started[i] = [oid |-> i, op |-> request.operations[i]]

\* the request's operations have all been taken off the queue without error
QueueEmptiedWithoutError ==
  /\ phase = "run" /\ request.oneshot
  /\ ops_ = <<>>
  /\ error_code_ = "EC_OK"

\* C9 as stated: the operations are started in submission order with oids
\* 1, 2, 3, ...; operation i+1 is started only after op_done of operation i
\* has run with OK; when the queue is emptied without error oid_ is the
\* number of operations plus one.
C9_Original ==
  /\ StartedInOrder
  /\ Len(op_started) <= Len(op_results) + 1
  /\ \A i \in 1..(Len(op_started) - 1) : op_results[i] = "EC_OK"
  /\ QueueEmptiedWithoutError => oid_ = Len(request.operations) + 1

\* C9, amended: as C9, where operation i+1 is started only after op_done of
\* operation i has run with OK or, in a transaction flagged read_only, with
\* NOT_FOUND_ERROR.
C9_StartedInSubmissionOrder ==
  /\ StartedInOrder
  /\ Len(op_started) <= Len(op_results) + 1
  /\ \A i \in 1..(Len(op_started) - 1) :
       \/ op_results[i] = "EC_OK"
       \/ read_only_ /\ op_results[i] = "EC_NOT_FOUND_ERROR"
  /\ QueueEmptiedWithoutError => oid_ = Len(request.operations) + 1

C9_Witness ==
  /\ Len(op_started) = MaxOps
  /\ ~read_only_
  /\ QueueEmptiedWithoutError
  /\ oid_ = MaxOps + 1

\* ---------------------------------------------------------------- C10
\* the last step was op_done of a READ that completed with NOT_FOUND_ERROR,
\* in a transaction flagged read_only that was still in RM_IDLE
ReadNotFoundTolerated ==
  /\ last.ev = "op_done"
  /\ last.state = "RM_IDLE"
  /\ read_only_
  /\ op_results # <<>>
  /\ op_results[Len(op_results)] = "EC_NOT_FOUND_ERROR"
  /\ request.operations[Len(op_results)].type
       \in {"TX_OP_READ", "TX_OP_READ_FOR_WRITE"}

InFlight == Len(op_results) < Len(op_started)

\* the operation started last, with its oid
Started == op_started[Len(op_started)]

\* the completion with error code ec is the one task posted on the strand
Completes(ec) == strand = <<[kind |-> "op_done", ec |-> ec]>>

\* the completion code of an INSERT stated for the DSB's answer ec
InsertCodeOf(ec) ==
  IF ec = "EC_OK" THEN "EC_DUPLICATION_ERROR"
  ELSE IF ec = "EC_NOT_FOUND_ERROR" THEN "EC_OK" ELSE ec

\* C11: for an INSERT in flight, after the lock notification with EC_OK the
\* operation completes with DUPLICATION_ERROR if the access manager has the
\* key and otherwise a DSB read is sent; the DSB's answer OK completes it with
\* DUPLICATION_ERROR, NOT_FOUND_ERROR with OK, any other with that code; a
\* failed lock request completes it with the lock's error code, and no DSB
\* read is sent before the lock is granted with OK.
C11_InsertOutcome ==
  (InFlight /\ Started.op.type = "TX_OP_INSERT") =>
     LET key == Started.op.key
         read == [oid |-> Started.oid, key |-> key]
     IN /\ (last.ev = "lock_ntf" /\ last.ec = "EC_OK" /\ key \in access)
             => Completes("EC_DUPLICATION_ERROR") /\ dsb_inflight = {}
        /\ (last.ev = "lock_ntf" /\ last.ec = "EC_OK" /\ key \notin access)
             => strand = <<>> /\ dsb_inflight = {read}
        /\ (last.ev = "lock_ntf" /\ last.ec # "EC_OK")
             => /\ Completes(last.ec)
                /\ dsb_inflight = {}
                /\ ds_read_handler_ = {}
        /\ (last.ev = "dsb_rsp") => Completes(InsertCodeOf(last.ec))
        /\ (last.ev \in {"request", "op_done", "lock_answer"})
             => dsb_inflight = {} /\ strand \in {<<>>} \cup
                     {<<[kind |-> "lock_ntf", ec |-> e]>> : e \in LockAnswers}

\* an INSERT of a key absent locally, which the DSB does not find either, has
\* completed with OK
C11_Witness ==
  /\ InFlight
  /\ Started.op.type = "TX_OP_INSERT"
  /\ last.ev = "dsb_rsp"
  /\ last.ec = "EC_NOT_FOUND_ERROR"
  /\ Completes("EC_OK")

\* --------------------------------------------------------------- C12
\* the i-th operation was an UPDATE that completed with NOT_FOUND_ERROR
UpdateNotFound(i) ==
  /\ op_started[i].op.type = "TX_OP_UPDATE"
  /\ op_results[i] = "EC_NOT_FOUND_ERROR"

\* C12: an UPDATE that completed with NOT_FOUND_ERROR is fatal in every
\* transaction, read_only or not: no further operation is started and the
\* transaction enters neither RM_COMMITTING nor RM_PREPARE_COMMITTING.
C12_UpdateNotFoundFatal ==
  \A i \in 1..Len(op_results) :
     UpdateNotFound(i) =>
        /\ Len(op_started) = i
        /\ ~EnteredState("RM_COMMITTING")
        /\ ~EnteredState("RM_PREPARE_COMMITTING")

\* --------------------------------------------------------------- C13
\* a record of the given type has been appended to the WAL
Appended(type) ==
  \E g \in 1..Len(wal) : \E j \in 1..Len(wal[g]) : wal[g][j].log_type = type

\* the i-th operation completed with an error that op_done does not tolerate
NonTolerated(i) ==
  /\ op_results[i] # "EC_OK"
  /\ ~(request.read_only /\ op_results[i] = "EC_NOT_FOUND_ERROR")

\* op_done found the transaction in RM_IDLE and took it to RM_ABORTING
AbortedByOpDone ==
  \E e \in edges :
     e.by = "op_done" /\ e.from = "RM_IDLE" /\ e.to = "RM_ABORTING"

\* C13: in a non-distributed transaction, once an operation has completed
\* with a non-tolerated error and op_done has taken the abort path, no
\* further operation is started, no RM_COMMIT record is appended, every
\* CLIENT_TX_RESP carries that operation's error code, and at RM_ENDED no
\* lock is held.
C13_ErrorAborts ==
  (~distributed_ /\ AbortedByOpDone) =>
     \A i \in 1..Len(op_results) :
        NonTolerated(i) =>
           /\ Len(op_started) = i
           /\ ~Appended("RM_COMMIT")
           /\ \A r \in ClientResponses : net[r].ec = op_results[i]
           /\ state_ = "RM_ENDED" => lm_held = {}

\* --------------------------------------------------------------- C14
\* C14: a transaction flagged read_only never passes a lock request to the
\* lock manager for any of its operations, and its commit appends nothing to
\* the WAL.
C14_ReadOnlySkipsLockAndLog ==
  read_only_ =>
     /\ lm_requested = {}
     /\ EnteredState("RM_COMMITTING") => wal = <<>>

\* --------------------------------------------------------------- C15
\* C15: every CLIENT_TX_RESP of a transaction that entered RM_COMMITTING
\* carries the error code OK and the tuples of the accumulator response_, which
\* read_done filled in submission order.
C15_ResponseCarriesTuples ==
  EnteredState("RM_COMMITTING") =>
     \A r \in ClientResponses :
        net[r].ec = "EC_OK" /\ net[r].ops = response_

\* --------------------------------------------------------------- C16
\* a non-distributed transaction, not flagged read_only, that entered
\* RM_COMMITTING
CommittedOnePhase ==
  ~distributed_ /\ ~read_only_ /\ EnteredState("RM_COMMITTING")

IsWrite(op) == op.type \in {"TX_OP_INSERT", "TX_OP_UPDATE"}

GroupsOf(type) ==
  {g \in 1..Len(wal) : \E j \in 1..Len(wal[g]) : wal[g][j].log_type = type}

\* C17: in a distributed transaction every RM_COMMIT record is appended after
\* an RM_PREPARE_COMMIT record and after TM_COMMIT has been received, and
\* RM_COMMITTING is never entered from RM_IDLE.
C17_PrepareBeforeCommit ==
  distributed_ =>
     /\ \A g \in GroupsOf("RM_COMMIT") :
           /\ \E p \in GroupsOf("RM_PREPARE_COMMIT") : p < g
           /\ tm_decision = "commit"
     /\ \A e \in edges :
           e.to = "RM_COMMITTING" =>
              e.from = "RM_PREPARE_COMMITTING" /\ e.by = "tm_commit"

\* a participant has appended RM_COMMIT on TM_COMMIT
C17_Witness ==
  /\ distributed_
  /\ tm_decision = "commit"
  /\ GroupsOf("RM_PREPARE_COMMIT") = {1}
  /\ GroupsOf("RM_COMMIT") = {2}

\* --------------------------------------------------------------- C18
\* nothing is owed to the transaction: no lock request is unanswered, no task
\* is posted on the strand, no DSB read is unanswered and no WAL append awaits
\* its durability callback
Quiescent ==
  /\ lm_pending = {}
  /\ strand = <<>>
  /\ dsb_inflight = {}
  /\ wal_pending = <<>>

\* C18: a oneshot non-distributed transaction to which every lock answer, DSB
\* answer and WAL callback has been delivered has sent exactly one
\* CLIENT_TX_RESP, holds no lock and is in RM_ENDED.
C18_TerminatesWhenAnswered ==
  (phase = "run" /\ request.oneshot /\ ~distributed_ /\ Quiescent) =>
     /\ state_ = "RM_ENDED"
     /\ Cardinality(ClientResponses) = 1
     /\ lm_held = {}

\* --------------------------------------------------------------- C19
\* the lock notifications posted on the strand and not yet run
LockNotifications ==
  {i \in 1..Len(strand) : strand[i].kind = "lock_ntf"}

\* C19: at most one lock acquisition is in flight. Every operation began
\* with lock_acquire_ nil; a lock request or a lock notification is
\* outstanding only for the operation started last, whose continuation is
\* stored; every notification that ran found the continuation, left
\* lock_acquire_ nil and invoked it once, which either completed the
\* operation or sent its DSB read.
C19_OneLockInFlight ==
  /\ "lock_acquire_" \notin asserts
  /\ "notify_lock_acquire" \notin asserts
  /\ Cardinality(lm_pending) + Cardinality(LockNotifications) <= 1
  /\ lm_pending \subseteq {lock_acquire_.oid}
  /\ LockNotifications # {} =>
        lock_acquire_ # NoFn /\ lock_acquire_.oid = Started.oid
  /\ last.ev = "lock_ntf" =>
        /\ lock_acquire_ = NoFn
        /\ Len(strand) + Cardinality(dsb_inflight) = 1

\* the notification for the second operation's lock has run
C19_Witness ==
  /\ last.ev = "lock_ntf"
  /\ Len(op_started) = 2
  /\ lock_acquire_ = NoFn
  /\ lm_requested = {1, 2}

\* --------------------------------------------------------------- C20
\* the last step was the one in which handle_next_operation, called in
\* RM_IDLE, found the queue empty and no error
CommitDecisionPoint ==
  /\ QueueEmptiedWithoutError
  /\ last.ev \in {"request", "op_done"}
  /\ last.state = "RM_IDLE"

\* C20: when all operations have completed without error, that step takes a
\* distributed share-nothing transaction from RM_IDLE to
\* RM_PREPARE_COMMITTING and every other transaction, the distributed one
\* with share-nothing off included, from RM_IDLE to RM_COMMITTING; no
\* transaction is left in RM_IDLE with an empty queue.
C20_CommitPathChosen ==
  /\ CommitDecisionPoint =>
        \E e \in edges :
           /\ e.from = "RM_IDLE"
           /\ e.by = last.ev
           /\ e.to = IF distributed_ /\ share_nothing
                     THEN "RM_PREPARE_COMMITTING" ELSE "RM_COMMITTING"
  /\ QueueEmptiedWithoutError => state_ # "RM_IDLE"

\* --------------------------------------------------------------- C21
\* A network that delivers TM decisions in any state of a share-nothing
\* participant: delayed, duplicated or contradicting ones included.
InitTm == Init /\ distributed_ /\ share_nothing

TmCommitAny ==
  /\ phase = "run"
  /\ n_events < MaxEvents
  /\ Apply(handle_finish_tx_phase2_commit(
             [Cur("tm_commit") EXCEPT !.n_events = @ + 1,
                                      !.tm_decision = "commit"]))

TmAbortAny ==
  /\ phase = "run"
  /\ n_events < MaxEvents
  /\ Apply(handle_finish_tx_phase2_abort(
             [Cur("tm_abort") EXCEPT !.n_events = @ + 1,
                                     !.tm_decision = "abort"]))

NextTm ==
  \/ ProcessTxRequest
  \/ LockAnswer
  \/ RunLockNotify
  \/ RunOpDone
  \/ DsbResponse
  \/ WalCallback
  \/ TimeoutCleanUp
  \/ AbortVictim
  \/ TmCommitAny
  \/ TmAbortAny

SpecTm == InitTm /\ [][NextTm]_vars

\* the last step left the RM state, the WAL and the sent messages as they were
LastChangedNothing ==
  /\ state_ = last.state
  /\ Len(wal) = last.wal
  /\ Len(net) = last.net

\* the ACK of the decision the ended transaction has taken
AckOfOutcome ==
  IF EnteredState("RM_COMMITTING") THEN AckCommit ELSE AckAbort

\* C21: TM_COMMIT handled in RM_IDLE, RM_PREPARE_ABORTING, RM_ABORTING or
\* RM_ENDED, and TM_ABORT handled in RM_COMMITTING, change no state, append
\* nothing and send nothing; a TM decision handled in RM_ENDED changes no
\* state, appends nothing and sends at most the ACK of the decision that was
\* taken.
C21_ImpossibleDecisionIgnored ==
  /\ (/\ last.ev = "tm_commit"
      /\ last.state \in {"RM_IDLE", "RM_PREPARE_ABORTING", "RM_ABORTING",
                         "RM_ENDED"})
       => LastChangedNothing
  /\ (last.ev = "tm_abort" /\ last.state = "RM_COMMITTING")
       => LastChangedNothing
  /\ (last.ev \in {"tm_commit", "tm_abort"} /\ last.state = "RM_ENDED")
       => /\ state_ = last.state
          /\ Len(wal) = last.wal
          /\ SentByLast \in {<<>>, <<AckOfOutcome>>}

\* --------------------------------------------------------------- C22
\* the event that took the transaction to RM_ABORTING
AbortedBy(ev) == \E e \in edges : e.to = "RM_ABORTING" /\ e.by = ev

\* A non-distributed transaction was aborted as victim or by timeout and the
\* operation then in flight has completed with the error of its DSB read.
\* (Only a DSB answer completes an operation with EC_DSB_ERROR, and had the
\* completion run before the abort, op_done would have been the one to
\* abort.)
LateDsbCompletion ==
  /\ ~distributed_
  /\ AbortedBy("victim") \/ AbortedBy("timeout")
  /\ op_results # <<>>
  /\ op_results[Len(op_results)] = "EC_DSB_ERROR"

\* C22: the DSB response that arrives after the abort of a non-distributed
\* transaction is discarded: the transaction stays on its way from
\* RM_ABORTING to RM_ENDED, starts no further operation, and reports to the
\* client the error code of the abort, EC_VICTIM for a victim.
C22_LateDsbResponseDiscarded ==
  LateDsbCompletion =>
     /\ state_ \in {"RM_ABORTING", "RM_ENDED"}
     /\ Len(op_started) = Len(op_results)
     /\ AbortedBy("victim") =>
           \A r \in ClientResponses : net[r].ec = "EC_VICTIM"

\* --------------------------------------------------------------- C23
\* A DSB whose response pairs any error code with a tuple or with none, for a
\* non-distributed transaction.
InitDsb == Init /\ ~distributed_

DsbResponseAny ==
  \E r \in dsb_inflight, ec \in DsbAnswers, has_tuple \in BOOLEAN :
    Apply(read_data_from_dsb_response(
            [Cur("dsb_rsp") EXCEPT !.dsb_inflight = @ \ {r},
                                   !.last.ec = ec,
                                   !.last.tuple = IF has_tuple
                                                  THEN TupleOf(r.key)
                                                  ELSE TupleNil],
            r.oid, r.key, ec, has_tuple))

NextDsb ==
  \/ ProcessTxRequest
  \/ LockAnswer
  \/ RunLockNotify
  \/ RunOpDone
  \/ DsbResponseAny
  \/ WalCallback
  \/ TimeoutCleanUp
  \/ AbortVictim

SpecDsb == InitDsb /\ [][NextDsb]_vars

\* C23: at most one DSB read handler is registered at any time; a DSB
\* response invokes the handler of its oid once, with the response's error
\* code and tuple: a READ completes with that code and its tuple is the one
\* added to the accumulator, an UPDATE completes with that code, an INSERT
\* with the code made of it; the handler is then removed; the access manager
\* has the key afterwards exactly when the code is OK and the tuple is not
\* empty.
C23_DsbResponseHandled ==
  /\ Cardinality(ds_read_handler_) <= 1
  /\ "read_data_from_dsb_response" \notin asserts
  /\ last.ev = "dsb_rsp" =>
        /\ ds_read_handler_ = {}
        /\ dsb_inflight = {}
        /\ CASE Started.op.type \in {"TX_OP_READ", "TX_OP_READ_FOR_WRITE"} ->
                  /\ Completes(last.ec)
                  /\ response_ # <<>>
                  /\ response_[Len(response_)] = last.tuple
             [] Started.op.type = "TX_OP_UPDATE" -> Completes(last.ec)
             [] Started.op.type = "TX_OP_INSERT" ->
                  Completes(InsertCodeOf(last.ec))
        /\ Started.op.key \in access
             <=> (last.ec = "EC_OK" /\ last.tuple # TupleNil)

\* a response with an error code and a tuple has been handled: the key is
\* not in the access manager
C23_Witness ==
  /\ last.ev = "dsb_rsp"
  /\ last.ec = "EC_DSB_ERROR"
  /\ last.tuple = TupleOf(Started.op.key)
  /\ Started.op.key \notin access
  /\ ds_read_handler_ = {}

\* ------------------------------------------- dependency tracking (geo-rep)
\* The contexts of this part are tx_context objects in any state_ whose
\* commit and prepare-commit records are not yet durable, so that
\* dlv_try_tx_commit and dlv_try_tx_prepare_commit, called by
\* dependency_commit, find nothing to deliver.

MinXid(a, b) == IF a < b THEN a ELSE b

MaxXid(a, b) == IF a < b THEN b ELSE a

\* mutex_.lock() of context x by thread t, once the mutex can be taken
Lock(c, x, t) == [c EXCEPT ![x].owner = t, ![x].depth = @ + 1]

\* mutex_.unlock() of context x
Unlock(c, x) ==
  [c EXCEPT ![x].depth = @ - 1,
            ![x].owner = IF c[x].depth = 1 THEN NoThread ELSE @]

\* Thread t locks the mutex of context x and goes on as th.  A mutex held by
\* another thread blocks it.  Its own std::recursive_mutex is locked once
\* more.  Locking its own std::mutex again is undefined behaviour: the thread
\* waits for itself for ever, or the call goes on as if the lock was taken.
Acquire(t, x, th) ==
  /\ contexts[x].owner \in {NoThread, t}
  /\ \/ /\ contexts' = Lock(contexts, x, t)
        /\ threads' = [threads EXCEPT ![t] = th]
     \/ /\ contexts[x].owner = t
        /\ mutex_type = "std::mutex"
        /\ threads' = [threads EXCEPT ![t].pc = "deadlocked"]
        /\ UNCHANGED contexts

\* a variant that counts every registration
register_dependency_body_recount(c, a, b) ==
  IF c[b].state_ \in {"RM_ABORTING", "RM_COMMITTING"} THEN c
  ELSE IF c[a].state_ \in {"RM_COMMITTING", "RM_ABORTING"} THEN c
  ELSE [c EXCEPT ![b].dep_in_count_ = @ + 1,
                 ![a].dep_out_set_ = @ \cup {b},
                 ![b].dep_in_set_ = @ \cup {a}]

\* the do { } while (false) of register_dependency, this = a, out = b
register_dependency_body(c, a, b) ==
  IF c[b].state_ \in {"RM_ABORTING", "RM_COMMITTING"} THEN c
  ELSE IF c[a].state_ \in {"RM_COMMITTING", "RM_ABORTING"} THEN c
  ELSE IF b \notin c[a].dep_out_set_
       THEN [c EXCEPT ![b].dep_in_count_ = @ + 1,
                      ![a].dep_out_set_ = @ \cup {b},
                      ![b].dep_in_set_ = @ \cup {a}]
       ELSE c

\* the lambda report_dependency posts to the strand of ctx, without its
\* lock and unlock: the new contexts and the tasks it posts
report_fn(c, ctx, xid) ==
  IF xid \in c[ctx].dep_in_set_ /\ c[ctx].dep_in_count_ > 0
  THEN [c |-> [c EXCEPT ![ctx].dep_in_count_ = @ - 1,
                        ![ctx].reported = @ + 1],
        post |-> IF c[ctx].dep_in_count_ = 1
                 THEN <<[kind |-> "dependency_commit", ctx |-> ctx,
                         xid |-> ctx]>>
                 ELSE <<>>]
  ELSE [c |-> c, post |-> <<>>]

\* a thread calls register_dependency; xid_ == out->xid_ returns at once
CallRegister ==
  \E t \in Threads, a \in Xids, b \in Xids :
    /\ threads[t].pc = "idle"
    /\ threads[t].calls < MaxCalls
    /\ threads' = [threads EXCEPT ![t] =
                     [pc |-> IF a = b THEN "idle" ELSE "lock1",
                      this |-> a, out |-> b, calls |-> @.calls + 1,
                      returned |-> IF a = b THEN "register_dependency"
                                   ELSE "none"]]
    /\ UNCHANGED <<txvars, contexts, posted, mutex_type>>

\* the first lock() of register_dependency: the context of the lower xid
RegisterLock1 ==
  \E t \in Threads :
    /\ threads[t].pc = "lock1"
    /\ Acquire(t, MinXid(threads[t].this, threads[t].out),
               [threads[t] EXCEPT !.pc = "lock2"])
    /\ UNCHANGED <<txvars, posted, mutex_type>>

\* the second lock(): the context of the higher xid
RegisterLock2 ==
  \E t \in Threads :
    /\ threads[t].pc = "lock2"
    /\ Acquire(t, MaxXid(threads[t].this, threads[t].out),
               [threads[t] EXCEPT !.pc = "body"])
    /\ UNCHANGED <<txvars, posted, mutex_type>>

RegisterBody ==
  \E t \in Threads :
    /\ threads[t].pc = "body"
    /\ contexts' = register_dependency_body(contexts, threads[t].this,
                                            threads[t].out)
    /\ threads' = [threads EXCEPT ![t].pc = "relock1"]
    /\ UNCHANGED <<txvars, posted, mutex_type>>

\* after the loop the two mutexes are locked again, in the reverse order:
\* first the context of the higher xid
RegisterRelock1 ==
  \E t \in Threads :
    /\ threads[t].pc = "relock1"
    /\ Acquire(t, MaxXid(threads[t].this, threads[t].out),
               [threads[t] EXCEPT !.pc = "relock2"])
    /\ UNCHANGED <<txvars, posted, mutex_type>>

\* then the context of the lower xid, and the call returns
RegisterRelock2 ==
  \E t \in Threads :
    /\ threads[t].pc = "relock2"
    /\ Acquire(t, MinXid(threads[t].this, threads[t].out),
               [threads[t] EXCEPT !.pc = "idle",
                                  !.returned = "register_dependency"])
    /\ UNCHANGED <<txvars, posted, mutex_type>>

\* a thread calls report_dependency
CallReport ==
  \E t \in Threads, a \in Xids :
    /\ threads[t].pc = "idle"
    /\ threads[t].calls < MaxCalls
    /\ threads' = [threads EXCEPT ![t] =
                     [pc |-> "report_lock", this |-> a, out |-> 0,
                      calls |-> @.calls + 1, returned |-> "none"]]
    /\ UNCHANGED <<txvars, contexts, posted, mutex_type>>

ReportLock ==
  \E t \in Threads :
    /\ threads[t].pc = "report_lock"
    /\ Acquire(t, threads[t].this, [threads[t] EXCEPT !.pc = "report_post"])
    /\ UNCHANGED <<txvars, posted, mutex_type>>

\* the elements of a set of xids in ascending order, as std::map iterates
Ascending(S) ==
  CHOOSE f \in [1..Cardinality(S) -> S] :
    \A i, j \in 1..Cardinality(S) : i < j => f[i] < f[j]

\* the loop of report_dependency over dep_out_set_, and its unlock()
ReportPost ==
  \E t \in Threads :
    /\ threads[t].pc = "report_post"
    /\ LET a == threads[t].this
           outs == Ascending(contexts[a].dep_out_set_)
       IN /\ posted' = posted \o [i \in 1..Len(outs) |->
                                    [kind |-> "report", ctx |-> outs[i],
                                     xid |-> a]]
          /\ contexts' = Unlock(contexts, a)
    /\ threads' = [threads EXCEPT ![t].pc = "idle",
                                  ![t].returned = "report_dependency"]
    /\ UNCHANGED <<txvars, mutex_type>>

\* posted without its i-th task
Without(q, i) == SubSeq(q, 1, i - 1) \o SubSeq(q, i + 1, Len(q))

\* A free thread of the pool runs the oldest task of a strand: the lambda of
\* report_dependency, or dependency_commit, each under the mutex of its
\* context.
RunTask ==
  \E t \in Threads, i \in 1..Len(posted) :
    /\ threads[t].pc = "idle"
    /\ \A j \in 1..(i - 1) : posted[j].ctx # posted[i].ctx
    /\ contexts[posted[i].ctx].owner \in {NoThread, t}
    /\ \/ LET x == posted[i].ctx
              r == IF posted[i].kind = "report"
                   THEN report_fn(contexts, x, posted[i].xid)
                   ELSE [c |-> [contexts EXCEPT
                                  ![x].dependency_committed_ = TRUE],
                         post |-> <<>>]
          IN /\ contexts' = r.c
             /\ posted' = Without(posted, i) \o r.post
             /\ threads' = [threads EXCEPT ![t].returned = "task"]
       \/ /\ contexts[posted[i].ctx].owner = t
          /\ mutex_type = "std::mutex"
          /\ threads' = [threads EXCEPT ![t].pc = "deadlocked"]
          /\ UNCHANGED <<contexts, posted>>
    /\ UNCHANGED <<txvars, mutex_type>>

\* contexts in any state, no dependency registered yet, either mutex type
InitDep ==
  /\ InitTx
  /\ ~distributed_ /\ ~share_nothing /\ access = {}
  /\ contexts \in [Xids -> {[NewContext EXCEPT !.state_ = st] :
                              st \in RmStates}]
  /\ threads = [t \in Threads |-> IdleThread]
  /\ posted = <<>>
  /\ mutex_type \in MutexTypes

NextDep ==
  \/ CallRegister
  \/ RegisterLock1
  \/ RegisterLock2
  \/ RegisterBody
  \/ RegisterRelock1
  \/ RegisterRelock2
  \/ CallReport
  \/ ReportLock
  \/ ReportPost
  \/ RunTask

SpecDep == InitDep /\ [][NextDep]_vars

\* --------------------------------------------------------------- C24
\* the states in which register_dependency creates no edge
NoEdgeStates == {"RM_ABORTING", "RM_COMMITTING"}

\* thread t is past the loop of a register_dependency call for an edge that
\* the claim says is created
PastBodyOfEligible(t) ==
  /\ \/ threads[t].pc \in {"relock1", "relock2"}
     \/ threads[t].pc = "idle" /\ threads[t].returned = "register_dependency"
  /\ threads[t].this # threads[t].out
  /\ contexts[threads[t].this].state_ \notin NoEdgeStates
  /\ contexts[threads[t].out].state_ \notin NoEdgeStates

\* C24: an edge A -> B exists only between two different contexts neither of
\* which is in RM_ABORTING or RM_COMMITTING, and is in A's dep_out_set_
\* exactly when it is in B's dep_in_set_; every other registration that has
\* passed the loop has created its edge; every edge was counted once:
\* B's dep_in_count_, plus the decrements reported to B, is the size of B's
\* dep_in_set_, however often the edge was registered.
C24_EdgeCreatedOnce ==
  /\ \A a \in Xids, b \in Xids :
       /\ b \in contexts[a].dep_out_set_ <=> a \in contexts[b].dep_in_set_
       /\ b \in contexts[a].dep_out_set_ =>
            /\ a # b
            /\ contexts[a].state_ \notin NoEdgeStates
            /\ contexts[b].state_ \notin NoEdgeStates
  /\ \A b \in Xids :
       contexts[b].dep_in_count_ + contexts[b].reported
         = Cardinality(contexts[b].dep_in_set_)
  /\ \A t \in Threads :
       PastBodyOfEligible(t) =>
          threads[t].out \in contexts[threads[t].this].dep_out_set_

\* thread t has just run the loop of a register_dependency call for an edge
\* that the claim says is created; it holds both mutexes
JustRegistered(t) ==
  /\ threads[t].pc = "relock1"
  /\ contexts[threads[t].this].state_ \notin NoEdgeStates
  /\ contexts[threads[t].out].state_ \notin NoEdgeStates

\* the claim as stated: after the registration of an edge A -> B,
\* B's dep_in_count_ is the size of B's dep_in_set_
C24_Original ==
  \A t \in Threads :
    JustRegistered(t) =>
      /\ threads[t].out \in contexts[threads[t].this].dep_out_set_
      /\ contexts[threads[t].out].dep_in_count_
           = Cardinality(contexts[threads[t].out].dep_in_set_)

\* an edge is registered again after its decrement was reported: the count
\* stays at zero while dep_in_set_ still holds the edge
C24_Witness ==
  \E t \in Threads :
    /\ JustRegistered(t)
    /\ threads[t].out \in contexts[threads[t].this].dep_out_set_
    /\ contexts[threads[t].out].dep_in_set_ = {threads[t].this}
    /\ contexts[threads[t].out].dep_in_count_ = 0
    /\ contexts[threads[t].out].reported = 1

\* --------------------------------------------------------------- C25
\* the context whose mutex thread t is about to lock, 0 if none
Wanted(t) ==
  LET th == threads[t]
  IN CASE th.pc \in {"lock1", "relock2"} -> MinXid(th.this, th.out)
       [] th.pc \in {"lock2", "relock1"} -> MaxXid(th.this, th.out)
       [] th.pc = "report_lock" -> th.this
       [] OTHER -> 0

\* C25: no mutex is locked more than once at a time; no thread waits for
\* itself; no thread waits for a mutex whose owner runs no call and so will
\* not unlock it; and a thread that has returned from register_dependency
\* holds no mutex.
C25_RegisterLocksOnceAndReleases ==
  /\ \A x \in Xids : contexts[x].depth <= 1
  /\ \A t \in Threads :
       /\ threads[t].pc # "deadlocked"
       /\ Wanted(t) # 0 =>
            /\ contexts[Wanted(t)].owner # t
            /\ contexts[Wanted(t)].owner # NoThread =>
                 threads[contexts[Wanted(t)].owner].pc # "idle"
       /\ (threads[t].pc = "idle"
           /\ threads[t].returned = "register_dependency")
            => \A x \in Xids : contexts[x].owner # t

\* --------------------------------------------------------------- C26
\* C26: every CLIENT_TX_RESP with error code EC_OK is sent by a transaction
\* that entered RM_COMMITTING and never entered RM_ABORTING.
C26_OkOnlyWhenCommitting ==
  \A r \in ClientResponses :
    net[r].ec = "EC_OK" =>
      /\ EnteredState("RM_COMMITTING")
      /\ ~EnteredState("RM_ABORTING")

\* --------------------------------------------------------------- C27
\* C27: an event handled in RM_ABORTING or RM_ENDED sends no
\* PREPARE(commit = true).
C27_NoPrepareCommitAfterAbort ==
  last.state \in {"RM_ABORTING", "RM_ENDED"} =>
     \A i \in 1..Len(SentByLast) : SentByLast[i] # PrepareCommit

\* --------------------------------------------------------------- C28
\* the number of records of the given type appended to the WAL
NumRecords(type) ==
  Cardinality({p \in (1..Len(wal)) \X (1..MaxOps + 2) :
                 /\ p[2] <= Len(wal[p[1]])
                 /\ wal[p[1]][p[2]].log_type = type})

\* at most one RM_COMMIT record, at most one RM_ABORT record, never both
OneDecisionRecord ==
  /\ NumRecords("RM_COMMIT") <= 1
  /\ NumRecords("RM_ABORT") <= 1
  /\ NumRecords("RM_COMMIT") + NumRecords("RM_ABORT") <= 1

\* C28: the WAL holds at most one RM_COMMIT record and at most one RM_ABORT
\* record, never both, and a transaction whose RM_COMMIT record was appended
\* sends no ACK(commit = false).
C28_OneOutcome ==
  /\ OneDecisionRecord
  /\ Appended("RM_COMMIT") => \A i \in 1..Len(net) : net[i] # AckAbort

====
